---- MODULE Spec2Model ----
(***************************************************************************)
(* neutts/phonemizers.py: BasePhonemizer, FrenchPhonemizer,                *)
(* GermanPhonemizer and the CUSTOM_PHONEMIZERS registry.                   *)
(*                                                                         *)
(* A Python str is a sequence of code points; here it is a sequence of     *)
(* one-character strings.  Four IPA code points are written with ASCII     *)
(* stand-ins:                                                              *)
(*     ":"  U+02D0  the length marker                                      *)
(*     "Y"  U+028F  the replacement of a bare "y"                          *)
(*     "A"  U+0250  turned a                                               *)
(*     "U"  U+028A  upsilon                                                *)
(***************************************************************************)
EXTENDS Integers, Sequences, FiniteSets, TLC

VARIABLES
    espeak_version,  \* what EspeakBackend.version() reports in this process
    lexicon,         \* the engine's (deterministic) output for each text
    instances,       \* every phonemizer constructed so far, in order
    registry,        \* CUSTOM_PHONEMIZERS: language code -> index in instances
    engines,         \* the EspeakBackend constructions so far (their language)
    last,            \* the last operation: its arguments and its outcome
    cleanCall        \* one clean() call on its own: arguments and outcome

vars == <<espeak_version, lexicon, instances, registry, engines, last, cleanCall>>

mainVars == <<espeak_version, lexicon, instances, registry, engines, last>>

-----------------------------------------------------------------------------
(* Bounds *)

MaxLen == 4

MaxBatch == 2

MaxInstances == 3

-----------------------------------------------------------------------------
(* Strings *)

LengthMark == ":"

Alphabet == {"i", "?", "y", LengthMark, "-", "a"}

RECURSIVE StringsOfLen(_)
StringsOfLen(n) ==
    IF n = 0 THEN {<<>>}
    ELSE {<<c>> \o s : c \in Alphabet, s \in StringsOfLen(n - 1)}

Strings == UNION {StringsOfLen(n) : n \in 0..MaxLen}

None == "None"

(* A cell is one character of a string under cleanup together with its
   provenance: by = 0 for a character of the argument, by = k for a character
   written by the k-th substitution; over = TRUE when the substitution that
   wrote it matched a character an earlier substitution had written. *)
Tag(s) == [k \in 1..Len(s) |-> [ch |-> s[k], by |-> 0, over |-> FALSE]]

Chars(ts) == [k \in 1..Len(ts) |-> ts[k].ch]

(* str.replace(old, new): leftmost, non-overlapping, left to right. *)
RECURSIVE ReplaceCells(_, _, _, _)
ReplaceCells(ts, old, new, rule) ==
    IF Len(ts) < Len(old) THEN ts
    ELSE IF Chars(SubSeq(ts, 1, Len(old))) = old
         THEN LET hit  == SubSeq(ts, 1, Len(old))
                  over == \E k \in 1..Len(hit) : hit[k].by # 0
              IN  [j \in 1..Len(new) |-> [ch |-> new[j], by |-> rule, over |-> over]]
                  \o ReplaceCells(SubSeq(ts, Len(old) + 1, Len(ts)), old, new, rule)
         ELSE <<Head(ts)>> \o ReplaceCells(Tail(ts), old, new, rule)

(* re.sub(r"y(?!<length marker>)", "<U+028F>", phonemes) *)
ReSubYEverywhere(ts) ==
    [k \in 1..Len(ts) |->
        IF ts[k].ch = "y"
        THEN [ch |-> "Y", by |-> 1, over |-> ts[k].by # 0]
        ELSE ts[k]]

ReSubY(ts) ==
    [k \in 1..Len(ts) |->
        IF ts[k].ch = "y" /\ ~(k < Len(ts) /\ ts[k + 1].ch = LengthMark)
        THEN [ch |-> "Y", by |-> 1, over |-> ts[k].by # 0]
        ELSE ts[k]]

-----------------------------------------------------------------------------
(* Python's tuple comparison *)

RECURSIVE TupleLess(_, _)
TupleLess(a, b) ==
    IF b = <<>> THEN FALSE
    ELSE IF a = <<>> THEN TRUE
    ELSE IF Head(a) # Head(b) THEN Head(a) < Head(b)
    ELSE TupleLess(Tail(a), Tail(b))

TupleLeq(a, b) == a = b \/ TupleLess(a, b)

(* EspeakBackend.version() returns (major, minor, patch). *)
Versions ==
    {<<0, 51, 0>>, <<1, 49, 0>>, <<1, 49, 99>>, <<1, 50, 0>>, <<1, 50, 2>>,
     <<1, 51, 0>>, <<1, 51, 1>>, <<1, 52, 0>>, <<1, 52, 1>>, <<2, 0, 0>>,
     <<2, 51, 0>>}

-----------------------------------------------------------------------------
(* clean *)

NoWarnings == <<>>

Warning(msg, before, after) == [msg |-> msg, before |-> before, after |-> after]

BaseClean(phonemes) ==
    [phonemes |-> phonemes, warnings |-> NoWarnings, cells |-> Tag(phonemes)]

FrenchCleanFirstOnly(phonemes) ==
    LET RECURSIVE DropFirst(_)
        DropFirst(s) == IF s = <<>> THEN s
                        ELSE IF Head(s) = "-" THEN Tail(s)
                        ELSE <<Head(s)>> \o DropFirst(Tail(s))
    IN  [phonemes |-> DropFirst(phonemes), warnings |-> NoWarnings,
         cells |-> Tag(DropFirst(phonemes))]

FrenchClean(phonemes) ==
    LET cells == ReplaceCells(Tag(phonemes), <<"-">>, <<>>, 1)
    IN  [phonemes |-> Chars(cells), warnings |-> NoWarnings, cells |-> cells]

InAffectedRangeInclusive(version) ==
    TupleLeq(<<1, 50, 0>>, version) /\ TupleLeq(version, <<1, 52, 0>>)

InAffectedRange(version) ==
    TupleLeq(<<1, 50, 0>>, version) /\ TupleLess(version, <<1, 52, 0>>)

GermanPatchShortFirst(ts) ==
    LET s1 == ReSubY(ts)
        s2 == ReplaceCells(s1, <<"i", "?">>, <<"i", "A">>, 4)
        s3 == ReplaceCells(s2, <<"?", "?">>, <<"U", "A">>, 3)
        s4 == ReplaceCells(s3, <<"i", "?", "?", "?">>, <<"i", "A", "U", "A">>, 2)
    IN  s4

GermanPatch(ts) ==
    LET s1 == ReSubY(ts)
        s2 == ReplaceCells(s1, <<"i", "?", "?", "?">>, <<"i", "A", "U", "A">>, 2)
        s3 == ReplaceCells(s2, <<"?", "?">>, <<"U", "A">>, 3)
        s4 == ReplaceCells(s3, <<"i", "?">>, <<"i", "A">>, 4)
    IN  s4

Contains(s, c) == \E k \in 1..Len(s) : s[k] = c

GermanWarningsOnOriginal(original, phonemes) ==
    <<Warning("affected_version", <<>>, <<>>)>>
    \o (IF phonemes # original
        THEN <<Warning("attempted_fix", original, phonemes)>> ELSE <<>>)
    \o (IF Contains(original, "?")
        THEN <<Warning("fix_failed", <<>>, <<>>)>> ELSE <<>>)

GermanWarnings(original, phonemes) ==
    <<Warning("affected_version", <<>>, <<>>)>>
    \o (IF phonemes # original
        THEN <<Warning("attempted_fix", original, phonemes)>> ELSE <<>>)
    \o (IF Contains(phonemes, "?")
        THEN <<Warning("fix_failed", <<>>, <<>>)>> ELSE <<>>)

GermanClean(version, phonemes) ==
    IF InAffectedRange(version)
    THEN LET cells == GermanPatch(Tag(phonemes))
         IN  [phonemes |-> Chars(cells),
              warnings |-> GermanWarnings(phonemes, Chars(cells)),
              cells    |-> cells]
    ELSE [phonemes |-> phonemes, warnings |-> NoWarnings, cells |-> Tag(phonemes)]

Classes == {"BasePhonemizer", "FrenchPhonemizer", "GermanPhonemizer"}

(* self.clean(p): the method the instance's class defines. *)
Clean(self, phonemes) ==
    CASE self.cls = "FrenchPhonemizer" -> FrenchClean(phonemes)
      [] self.cls = "GermanPhonemizer" -> GermanClean(self.espeak_version, phonemes)
      [] OTHER -> BaseClean(phonemes)

(* self.preprocess(t): no class overrides it. *)
Preprocess(self, text) == text

-----------------------------------------------------------------------------
(* The G2P engine (phonemizer.backend.EspeakBackend, an external library) *)

Texts == {"t1", "t2"}

(* Raw engine outputs the model draws the engine's table from. *)
Samples == {<<"i", "?", "?", "?">>, <<"y", "-", "?">>}

EngineLanguages == {"fr-fr", "de", "en-us"}

EngineConfig(language) ==
    [language |-> language, preserve_punctuation |-> TRUE, with_stress |-> TRUE,
     words_mismatch |-> "ignore", language_switch |-> "remove-flags",
     version_calls |-> 0]

(* self.g2p.phonemize(batch): one phoneme string per item, in order. *)
EnginePhonemize(table, batch) == [k \in 1..Len(batch) |-> table[batch[k]]]

-----------------------------------------------------------------------------
(* BasePhonemizer.__init__ *)

DefaultCodeGermanLong(cls) ==
    CASE cls = "FrenchPhonemizer" -> "fr-fr"
      [] cls = "GermanPhonemizer" -> "de-de"
      [] OTHER -> None

DefaultCode(cls) ==
    CASE cls = "FrenchPhonemizer" -> "fr-fr"
      [] cls = "GermanPhonemizer" -> "de"
      [] OTHER -> None

Falsy(x) == x = None \/ x = ""

(* The outcome of cls(language_code) given the engines built so far and the
   version the engine reports: what it raised (None: nothing), the engines
   afterwards, and the instance (when nothing was raised). *)
ConstructEngineFirst(cls, language_code, engs, version) ==
    LET code == IF Falsy(language_code) THEN DefaultCode(cls) ELSE language_code
        lang == IF Falsy(code) THEN "en-us" ELSE code
        g2p  == [EngineConfig(lang) EXCEPT !.version_calls = 1]
    IN  IF lang \notin EngineLanguages
        THEN [raised |-> "RuntimeError", engines |-> engs, self |-> None]
        ELSE IF Falsy(code)
        THEN [raised |-> "ValueError", engines |-> Append(engs, g2p), self |-> None]
        ELSE [raised  |-> None,
              engines |-> Append(engs, g2p),
              self    |-> [cls |-> cls, code |-> code, g2p |-> Len(engs) + 1,
                           espeak_version |-> version]]

Construct(cls, language_code, engs, version) ==
    LET code == IF Falsy(language_code) THEN DefaultCode(cls) ELSE language_code
    IN  IF Falsy(code)
        THEN [raised |-> "ValueError", engines |-> engs, self |-> None]
        ELSE IF code \notin EngineLanguages
        THEN [raised |-> "RuntimeError", engines |-> engs, self |-> None]
        ELSE [raised  |-> None,
              engines |-> Append(engs, [EngineConfig(code) EXCEPT !.version_calls = 1]),
              self    |-> [cls |-> cls, code |-> code, g2p |-> Len(engs) + 1,
                           espeak_version |-> version]]

-----------------------------------------------------------------------------
(* BasePhonemizer.phonemize *)

Str(t) == [kind |-> "str", val |-> t]

List(ts) == [kind |-> "list", val |-> ts]

RECURSIVE Concat(_)
Concat(ss) == IF ss = <<>> THEN <<>> ELSE Head(ss) \o Concat(Tail(ss))

(* The outcome of self.phonemize(text): the returned value, the diagnostics
   emitted, and the caller's argument object and self afterwards. *)
PhonemizeBody(self, table, text, batch, single) ==
    LET preprocessed_text == [k \in 1..Len(batch) |-> Preprocess(self, batch[k])]
        phonemes_list     == EnginePhonemize(table, preprocessed_text)
        cleaned           == [k \in 1..Len(phonemes_list) |-> Clean(self, phonemes_list[k])]
        cleaned_list      == [k \in 1..Len(cleaned) |-> cleaned[k].phonemes]
    IN  [result     |-> IF single THEN Str(cleaned_list[1]) ELSE List(cleaned_list),
         warnings   |-> Concat([k \in 1..Len(cleaned) |-> cleaned[k].warnings]),
         text_after |-> text,
         self_after |-> self]

PhonemizeDropsLast(self, table, text) ==
    LET single == text.kind = "str"
        batch  == IF single THEN <<text.val>> ELSE text.val
    IN  PhonemizeBody(self, table, text,
                      IF single THEN batch ELSE SubSeq(batch, 1, Len(batch) - 1),
                      single)

PhonemizeNoUnwrap(self, table, text) ==
    LET batch == IF text.kind = "str" THEN <<text.val>> ELSE text.val
    IN  PhonemizeBody(self, table, text, batch, FALSE)

PhonemizeCachesCode(self, table, text) ==
    LET single == text.kind = "str"
        batch  == IF single THEN <<text.val>> ELSE text.val
        r      == PhonemizeBody(self, table, text, batch, single)
    IN  [r EXCEPT !.self_after = [self EXCEPT !.espeak_version = <<0, 0, 0>>]]

Phonemize(self, table, text) ==
    LET single_input == text.kind = "str"
        batch        == IF single_input THEN <<text.val>> ELSE text.val
    IN  PhonemizeBody(self, table, text, batch, single_input)

-----------------------------------------------------------------------------
(* CUSTOM_PHONEMIZERS, built when the module is loaded *)

French(version) == Construct("FrenchPhonemizer", None, <<>>, version)

German(version) ==
    Construct("GermanPhonemizer", None, French(version).engines, version)

LoadedInstances(version) == <<French(version).self, German(version).self>>

LoadedEngines(version) == German(version).engines

CustomPhonemizersSwapped == ("fr-fr" :> 2) @@ ("de" :> 1)

CustomPhonemizers == ("fr-fr" :> 1) @@ ("de" :> 2)

RegistryLookup(reg, code) ==
    IF code \in DOMAIN reg THEN [found |-> TRUE, inst |-> reg[code]]
    ELSE [found |-> FALSE, inst |-> 0]

-----------------------------------------------------------------------------
(* The program: the loaded module and the calls made on it *)

MainVersions == {<<1, 51, 1>>, <<1, 52, 0>>}

CodeArgs == {None, "", "de", "xx"}

LookupCodes == {"fr-fr", "de", "en-us", "de-de"}

RECURSIVE ListsOfLen(_)
ListsOfLen(n) ==
    IF n = 0 THEN {<<>>}
    ELSE {<<t>> \o l : t \in Texts, l \in ListsOfLen(n - 1)}

Inputs ==
    {Str(t) : t \in Texts} \cup {List(l) : l \in UNION {ListsOfLen(n) : n \in 0..MaxBatch}}

NoCall == [op |-> "none"]

NoClean == [self |-> None, phonemes |-> <<>>, done |-> FALSE, result |-> None]

Init ==
    /\ espeak_version \in MainVersions
    /\ lexicon \in [Texts -> Samples]
    /\ instances = LoadedInstances(espeak_version)
    /\ engines = LoadedEngines(espeak_version)
    /\ registry = CustomPhonemizers
    /\ last = NoCall
    /\ cleanCall = NoClean

DoConstruct(cls, language_code) ==
    \E r \in {Construct(cls, language_code, engines, espeak_version)} :
        /\ r.raised = None => Len(instances) < MaxInstances
        /\ instances' = IF r.raised = None THEN Append(instances, r.self) ELSE instances
        /\ engines' = r.engines
        /\ last' = [op |-> "construct", cls |-> cls, language_code |-> language_code,
                    raised |-> r.raised, engines_before |-> engines,
                    instances_before |-> instances]
        /\ UNCHANGED <<espeak_version, lexicon, registry, cleanCall>>

DoPhonemize(i, text) ==
    \E r \in {Phonemize(instances[i], lexicon, text)} :
        /\ instances' = [instances EXCEPT ![i] = r.self_after]
        /\ last' = [op |-> "phonemize", inst |-> i, text |-> text,
                    text_after |-> r.text_after, result |-> r.result,
                    warnings |-> r.warnings]
        /\ UNCHANGED <<espeak_version, lexicon, registry, engines, cleanCall>>

DoLookup(code) ==
    /\ last' = [op |-> "lookup", code |-> code] @@ RegistryLookup(registry, code)
    /\ UNCHANGED <<espeak_version, lexicon, instances, registry, engines, cleanCall>>

Next ==
    \/ \E cls \in Classes, c \in CodeArgs : DoConstruct(cls, c)
    \/ \E i \in 1..Len(instances), text \in Inputs : DoPhonemize(i, text)
    \/ \E code \in LookupCodes : DoLookup(code)

Spec == Init /\ [][Next]_vars

-----------------------------------------------------------------------------
(* One clean() call on every phoneme string up to MaxLen *)

CleanSelves(version) ==
    {[cls |-> cls, code |-> code, g2p |-> 1, espeak_version |-> version] :
        cls \in Classes, code \in {"de"}}

InitClean ==
    /\ espeak_version \in Versions
    /\ lexicon = [t \in Texts |-> <<"a">>]
    /\ instances = LoadedInstances(espeak_version)
    /\ engines = LoadedEngines(espeak_version)
    /\ registry = CustomPhonemizers
    /\ last = NoCall
    /\ \E self \in CleanSelves(espeak_version), p \in Strings :
           cleanCall = [self |-> self, phonemes |-> p, done |-> FALSE, result |-> None]

DoClean ==
    /\ ~cleanCall.done
    /\ cleanCall' = [cleanCall EXCEPT !.done = TRUE,
                                      !.result = Clean(cleanCall.self, cleanCall.phonemes)]
    /\ UNCHANGED mainVars

NextClean == DoClean

SpecClean == InitClean /\ [][NextClean]_vars

-----------------------------------------------------------------------------
(* Vocabulary of the properties *)

(* A (major, minor, patch) version inside [1.50.0, 1.52.0). *)
InDefectWindow(v) == v[1] = 1 /\ v[2] \in {50, 51}

HasSubstring(s, sub) ==
    \E k \in 0..(Len(s) - Len(sub)) : SubSeq(s, k + 1, k + Len(sub)) = sub

NotHyphen(c) == c # "-"

GermanCleanDone ==
    cleanCall.done /\ cleanCall.self.cls = "GermanPhonemizer"

(* The k-th character of a run of n "?" paired off from the left. *)
Paired(m, n) == IF m % 2 = 1 THEN "A" ELSE IF m + 1 < n THEN "U" ELSE "?"

(* What the ordered patch leaves at position k of s: a run of "?" right after
   an "i" gives up its first three (or, when it has only one, that one) to the
   "i" rules, and what is left of any run is paired off from the left. *)
PatchedAt(s, k) ==
    LET p == CHOOSE q \in 1..k :
                 /\ \A j \in q..k : s[j] = "?"
                 /\ (q = 1 \/ s[q - 1] # "?")
        e == CHOOSE q \in k..Len(s) :
                 /\ \A j \in k..q : s[j] = "?"
                 /\ (q = Len(s) \/ s[q + 1] # "?")
        n == e - p + 1
        j == k - p
        afterI == p > 1 /\ s[p - 1] = "i"
    IN  IF s[k] = "y"
        THEN (IF k < Len(s) /\ s[k + 1] = LengthMark THEN "y" ELSE "Y")
        ELSE IF s[k] # "?" THEN s[k]
        ELSE IF afterI /\ n = 1 THEN "A"
        ELSE IF afterI /\ n >= 3
             THEN (IF j < 3 THEN <<"A", "U", "A">>[j + 1] ELSE Paired(j - 3, n - 3))
        ELSE Paired(j, n)

WarningRank(w) ==
    CASE w.msg = "affected_version" -> 1
      [] w.msg = "attempted_fix" -> 2
      [] w.msg = "fix_failed" -> 3
      [] OTHER -> 0

-----------------------------------------------------------------------------
(* Properties *)

(* C1: phonemize of a list of N strings (N >= 0) returns a list of exactly N
   strings whose i-th element is clean(engine output for preprocess(i-th
   input)): nothing is dropped, duplicated or reordered. *)
C1_BatchOrderAndCardinality ==
    (last.op = "phonemize" /\ last.text.kind = "list") =>
        LET self == instances[last.inst]
            xs   == last.text.val
        IN  /\ last.result.kind = "list"
            /\ Len(last.result.val) = Len(xs)
            /\ \A k \in 1..Len(xs) :
                   last.result.val[k]
                       = Clean(self, lexicon[Preprocess(self, xs[k])]).phonemes

C1_Witness ==
    /\ last.op = "phonemize"
    /\ last.text = List(<<"t2", "t1">>)
    /\ last.inst = 2
    /\ InDefectWindow(espeak_version)
    /\ lexicon["t1"] = <<"i", "?", "?", "?">>
    /\ lexicon["t2"] = <<"y", "-", "?">>
    /\ last.result = List(<<(<<"Y", "-", "?">>), (<<"i", "A", "U", "A">>)>>)

(* C2: phonemize(x) on a string returns a single string equal to
   phonemize([x])[0], and phonemize of a list returns a list, also when the
   list has one element. *)
C2_ScalarBatchSymmetry ==
    (last.op = "phonemize") =>
        LET self == instances[last.inst]
        IN  /\ (last.text.kind = "str") =>
                   /\ last.result.kind = "str"
                   /\ last.result.val
                          = Phonemize(self, lexicon, List(<<last.text.val>>)).result.val[1]
            /\ (last.text.kind = "list") => last.result.kind = "list"

C2_Witness ==
    /\ last.op = "phonemize"
    /\ last.text = Str("t1")
    /\ instances[last.inst].cls = "FrenchPhonemizer"
    /\ lexicon["t1"] = <<"y", "-", "?">>
    /\ last.result = Str(<<"y", "?">>)

(* C3: a constructor call with no language code (absent or empty) in a class
   with no default raises the configuration error, and whenever that error
   is raised no engine has been constructed or queried; in the French and
   German classes an absent or empty code falls back to fr-fr / de and the
   configuration error is not raised. *)
C3_MissingLanguageCode ==
    (last.op = "construct") =>
        /\ (Falsy(last.language_code) /\ last.cls = "BasePhonemizer")
               => last.raised = "ValueError"
        /\ (last.raised = "ValueError") =>
               /\ engines = last.engines_before
               /\ instances = last.instances_before
        /\ (Falsy(last.language_code) /\ last.cls # "BasePhonemizer") =>
               /\ last.raised # "ValueError"
               /\ (last.raised = None) =>
                      /\ instances[Len(instances)].cls = last.cls
                      /\ instances[Len(instances)].code
                             = (IF last.cls = "FrenchPhonemizer" THEN "fr-fr" ELSE "de")

C3_Witness ==
    /\ last.op = "construct"
    /\ last.cls = "BasePhonemizer"
    /\ last.language_code = ""
    /\ last.raised = "ValueError"
    /\ Len(engines) = 2

(* C4: FrenchPhonemizer.clean(s) has no hyphen and is s with every hyphen
   removed, the other characters kept in order. *)
C4_FrenchCleanRemovesHyphens ==
    (cleanCall.done /\ cleanCall.self.cls = "FrenchPhonemizer") =>
        /\ cleanCall.result.phonemes = SelectSeq(cleanCall.phonemes, NotHyphen)
        /\ ~Contains(cleanCall.result.phonemes, "-")

C4_Witness ==
    /\ cleanCall.done
    /\ cleanCall.self.cls = "FrenchPhonemizer"
    /\ cleanCall.phonemes = <<"-", "a", "-", "y">>
    /\ cleanCall.result.phonemes = <<"a", "y">>

(* C5: with a recorded version outside [1.50.0, 1.52.0),
   GermanPhonemizer.clean returns its argument unchanged and emits no
   diagnostic, whatever the argument contains. *)
C5_GermanCleanOutsideWindow ==
    (GermanCleanDone /\ ~InDefectWindow(cleanCall.self.espeak_version)) =>
        /\ cleanCall.result.phonemes = cleanCall.phonemes
        /\ cleanCall.result.warnings = <<>>

C5_Witness ==
    /\ GermanCleanDone
    /\ cleanCall.self.espeak_version = <<1, 52, 0>>
    /\ cleanCall.phonemes = <<"i", "?", "y", "?">>
    /\ cleanCall.result.phonemes = <<"i", "?", "y", "?">>

(* C6: with a recorded version inside [1.50.0, 1.52.0), clean("i???")
   contains the four-character replacement and not "i???"; and every "y" not
   immediately followed by the length marker becomes U+028F while every "y"
   immediately followed by it stays "y". *)
C6_GermanCleanInsideWindow ==
    (GermanCleanDone /\ InDefectWindow(cleanCall.self.espeak_version)) =>
        LET s   == cleanCall.phonemes
            out == cleanCall.result.phonemes
        IN  /\ (s = <<"i", "?", "?", "?">>) =>
                   /\ HasSubstring(out, <<"i", "A", "U", "A">>)
                   /\ ~HasSubstring(out, <<"i", "?", "?", "?">>)
            /\ Len(out) = Len(s)
            /\ \A k \in 1..Len(s) :
                   (s[k] = "y") =>
                       IF k < Len(s) /\ s[k + 1] = LengthMark
                       THEN out[k] = "y"
                       ELSE out[k] = "Y"

C6_Witness ==
    /\ GermanCleanDone
    /\ cleanCall.self.espeak_version = <<1, 50, 0>>
    /\ cleanCall.phonemes = <<"i", "?", "?", "?">>
    /\ cleanCall.result.phonemes = <<"i", "A", "U", "A">>

(* C8: with a recorded version inside the window, one clean call emits the
   first diagnostic always, the before/after diagnostic exactly when the
   returned string differs from the argument, the third exactly when the
   returned string still contains "?", in that order, and returns the
   patched string in every case. *)
C8_GermanDiagnostics ==
    (GermanCleanDone /\ InDefectWindow(cleanCall.self.espeak_version)) =>
        LET s   == cleanCall.phonemes
            out == cleanCall.result.phonemes
            w   == cleanCall.result.warnings
        IN  /\ Len(w) >= 1 /\ w[1].msg = "affected_version"
            /\ \A j, k \in 1..Len(w) : j < k => WarningRank(w[j]) < WarningRank(w[k])
            /\ \A k \in 1..Len(w) : WarningRank(w[k]) # 0
            /\ (\E k \in 1..Len(w) : w[k].msg = "attempted_fix") <=> (out # s)
            /\ \A k \in 1..Len(w) :
                   w[k].msg = "attempted_fix" => w[k].before = s /\ w[k].after = out
            /\ (\E k \in 1..Len(w) : w[k].msg = "fix_failed") <=> Contains(out, "?")
            /\ out = Chars(GermanPatch(Tag(s)))

C8_Witness ==
    /\ GermanCleanDone
    /\ InDefectWindow(cleanCall.self.espeak_version)
    /\ cleanCall.phonemes = <<"i", "?", "a", "?">>
    /\ cleanCall.result.phonemes = <<"i", "A", "a", "?">>
    /\ Len(cleanCall.result.warnings) = 3

(* C9: with a recorded version inside the window the four substitutions act
   in the order y, "i???", "??", "i?", each on the whole string the previous
   one left, and no substitution matches a character an earlier one wrote:
   every character of the result is a character of the argument or part of
   exactly one substitution's replacement text. *)
C9_OrderedNoDoublePatch ==
    (GermanCleanDone /\ InDefectWindow(cleanCall.self.espeak_version)) =>
        LET s     == cleanCall.phonemes
            cells == cleanCall.result.cells
        IN  /\ Len(cells) = Len(s)
            /\ Chars(cells) = cleanCall.result.phonemes
            /\ \A k \in 1..Len(s) :
                   /\ cells[k].ch = PatchedAt(s, k)
                   /\ cells[k].by \in 0..4
                   /\ ~cells[k].over
                   /\ (cells[k].by = 0) => cells[k].ch = s[k]
                   /\ (cells[k].by = 1) => cells[k].ch = "Y"
                   /\ (cells[k].by = 3) => cells[k].ch \in {"U", "A"}

C9_Witness ==
    /\ GermanCleanDone
    /\ InDefectWindow(cleanCall.self.espeak_version)
    /\ cleanCall.phonemes = <<"y", "i", "?", "?">>
    /\ cleanCall.result.phonemes = <<"Y", "i", "U", "A">>
    /\ cleanCall.result.cells[1].by = 1
    /\ cleanCall.result.cells[3].by = 3

(* C7: the registry has exactly the keys fr-fr and de; fr-fr is a
   FrenchPhonemizer with code fr-fr, de a GermanPhonemizer with code de, and
   a lookup of any other code finds nothing. *)
C7_Registry ==
    /\ DOMAIN registry = {"fr-fr", "de"}
    /\ instances[registry["fr-fr"]].cls = "FrenchPhonemizer"
    /\ instances[registry["fr-fr"]].code = "fr-fr"
    /\ instances[registry["de"]].cls = "GermanPhonemizer"
    /\ instances[registry["de"]].code = "de"
    /\ (last.op = "lookup") =>
           /\ last.found <=> last.code \in {"fr-fr", "de"}
           /\ (last.code = "fr-fr") =>
                  instances[last.inst].cls = "FrenchPhonemizer"
           /\ (last.code = "de") =>
                  instances[last.inst].cls = "GermanPhonemizer"

C7_Witness ==
    /\ last.op = "lookup"
    /\ last.code = "en-us"
    /\ ~last.found
    /\ Len(instances) > 2

(* C10: no call changes an existing instance's language code, engine handle
   or recorded version, nor the registry; a phonemize call constructs no
   engine, leaves the caller's list as it was, and returns what the same
   call returns on the freshly loaded module. *)
C10_Step ==
    /\ \A i \in 1..Len(instances) :
           i <= Len(instances') /\ instances'[i] = instances[i]
    /\ registry' = registry
    /\ (last'.op = "phonemize") =>
           /\ instances' = instances
           /\ engines' = engines
           /\ last'.text_after = last'.text
           /\ (last'.inst <= 2) =>
                  last'.result
                      = Phonemize(LoadedInstances(espeak_version)[last'.inst],
                                  lexicon, last'.text).result

C10_Frame == [][C10_Step]_vars

C10_Witness ==
    /\ last.op = "phonemize"
    /\ last.inst = 2
    /\ last.text.kind = "list"
    /\ Len(last.text.val) = 2
    /\ last.text_after = last.text
    /\ Len(instances) > 2

====
